---- MODULE Spec2Model ----
(***************************************************************************)
(* Model of the CPU ray tracer of rust-wgpu (src/src/main.rs) and of the   *)
(* event loop that drives it (src/src/application.rs, src/src/camera.rs).  *)
(*                                                                         *)
(* f32 values are modelled as fixed-point numbers: the integer n stands    *)
(* for n / FP.  Every product, quotient and square root is rounded to the  *)
(* nearest representable value, as an f32 operation is.                    *)
(***************************************************************************)
EXTENDS Integers, Sequences, FiniteSets, TLC

\* ------------------------------------------------------------------ bounds
\* Half of the side of the target image (IMG_WIDTH = IMG_HEIGHT, both even).
HalfSize == 4
\* Largest number of net W (or S) key presses the model follows.
MaxMoves == 1
\* Largest width or height carried by a Resized / ScaleFactorChanged event.
MaxDim == 1

\* ------------------------------------------------------ f32 as fixed point
FP == 1000

\* std::f32::MAX, the initial hit_distance: above every distance of the model.
F32_MAX == 2000000000

Abs(n) == IF n < 0 THEN -n ELSE n

\* The one element of a one-element set.  The({e(v) : v \in {a}}) is e(a)
\* with a evaluated once.
The(S) == CHOOSE v \in S : TRUE

\* n / d rounded to the nearest integer (d > 0).
Round(n, d) ==
  The({ IF m >= 0 THEN (2 * m + d) \div (2 * d) ELSE -((2 * (-m) + d) \div (2 * d)) :
          m \in {n} })

\* an integer literal as f32
F(n) == n * FP

Mul(a, b) == Round(a * b, FP)

\* a / b for b # 0 (the callers below never divide by zero)
Div(a, b) ==
  The({ IF d > 0 THEN Round(a * FP, d) ELSE Round((-a) * FP, -d) : d \in {b} })

RECURSIVE ISqrtBS(_, _, _)
\* the largest r of lo .. hi with r * r <= n, by bisection
ISqrtBS(n, lo, hi) ==
  IF lo >= hi THEN lo
  ELSE The({ IF mid * mid <= n THEN ISqrtBS(n, mid, hi) ELSE ISqrtBS(n, lo, mid - 1) :
               mid \in {(lo + hi + 1) \div 2} })

\* f32::sqrt for a >= 0
Sqrt(a) ==
  The({ The({ IF n - r * r > r THEN r + 1 ELSE r : r \in {ISqrtBS(n, 0, 46340)} }) :
          n \in {a * FP} })

\* f32::max
FMax(a, b) == IF a > b THEN a ELSE b

\* ------------------------------------------------------------- glam::Vec3
Vec3(px, py, pz) == [x |-> px, y |-> py, z |-> pz]
Vec4(px, py, pz, pw) == [x |-> px, y |-> py, z |-> pz, w |-> pw]
Vec3ZERO == Vec3(0, 0, 0)
Sub(u, v) == Vec3(u.x - v.x, u.y - v.y, u.z - v.z)
Add(u, v) == Vec3(u.x + v.x, u.y + v.y, u.z + v.z)
Neg(u) == Vec3(-u.x, -u.y, -u.z)
Scale(u, s) ==
  The({ Vec3(Mul(w.x, t), Mul(w.y, t), Mul(w.z, t)) : w \in {u}, t \in {s} })
Dot(u, v) ==
  The({ Mul(a.x, b.x) + Mul(a.y, b.y) + Mul(a.z, b.z) : a \in {u}, b \in {v} })
Length(u) == Sqrt(Dot(u, u))
\* Vec3::normalize: v * (1 / length); only used on vectors of non-zero length
Normalize(u) == The({ Scale(w, Div(F(1), Length(w))) : w \in {u} })

\* ------------------------------------------------------------------ scene
Sphere(pos, r, alb) == [position |-> pos, radius |-> r, albedo |-> alb]

\* the scene RayTracingCPU::start builds
StartScene ==
  << Sphere(Vec3ZERO, 500, Vec3(F(1), 0, F(1))),
     Sphere(Vec3(F(1), 0, F(-5)), 1500, Vec3(200, 300, F(1))) >>

\* ----------------------------------------------------------------- camera
PI == 3142
degree_to_radian(degree) == Div(Mul(degree, PI), F(180))

\* an f32 that may be infinite or NaN (the aspect ratio is a quotient of
\* two window dimensions, either of which may be 0)
Num(v) == [kind |-> "num", val |-> v]
PosInf == [kind |-> "inf", val |-> 0]
NaN == [kind |-> "nan", val |-> 0]
\* w as f32 / h as f32 for u32 w, h
FDivU32(w, h) ==
  IF h = 0 THEN (IF w = 0 THEN NaN ELSE PosInf) ELSE Num(Div(F(w), F(h)))

CameraProjectionDefault ==
  [fov |-> degree_to_radian(F(45)), near |-> 100, far |-> F(100),
   aspect_ratio |-> FDivU32(16, 9)]
CameraViewDefault ==
  [position |-> Vec3(0, 0, F(-10)), rotation |-> <<0, 0, 0, F(1)>>]
CameraDefault == [view |-> CameraViewDefault, projection |-> CameraProjectionDefault]

\* CameraController::new(0.2)
Speed == 200

\* ------------------------------------------------------------ target image
IMG_WIDTH == 2 * HalfSize
IMG_HEIGHT == 2 * HalfSize
\* RgbaImage::from_raw(IMG_WIDTH, IMG_HEIGHT, ..): the pixels of the image
Pixels == (0 .. (IMG_WIDTH - 1)) \X (0 .. (IMG_HEIGHT - 1))
\* `for y in 0..IMG_HEIGHT` and `for x in 0..IMG_WIDTH`
YRange == 0 .. (IMG_HEIGHT - 1)
\* faulty variant: the inner loop stops one column early
XRange_Short == 0 .. (IMG_WIDTH - 2)
XRange == 0 .. (IMG_WIDTH - 1)
InitialFill == <<234, 65, 123, 255>>
\* create_target_texture: every pixel holds the fill colour
create_target_texture == [p \in Pixels |-> InitialFill]

\* ----------------------------------------------------------- convert_rgba
\* faulty variant: the cast rounds to the nearest byte
AsU8_Rounding(v) ==
  IF v < 0 THEN 0 ELSE IF v >= F(255) THEN 255 ELSE Round(v, FP)
\* `v as u8`: truncates toward zero and saturates at 0 and 255
AsU8(v) == IF v < 0 THEN 0 ELSE IF v >= F(256) THEN 255 ELSE v \div FP
convert_rgba(c) ==
  << AsU8(Mul(c.x, F(255))), AsU8(Mul(c.y, F(255))),
     AsU8(Mul(c.z, F(255))), AsU8(Mul(c.w, F(255))) >>

\* --------------------------------------------------------------- cast_ray
\* faulty variant: the clear colour of the GPU render pass instead of black
clear_color_Gpu == Vec4(100, 200, 300, F(1))
clear_color == Vec4(0, 0, 0, F(1))
light_direction == Normalize(Vec3(F(-1), F(-1), F(-1)))

QuadA(ry) == Dot(ry.direction, ry.direction)
QuadB(sph, ry) == Mul(F(2), Dot(Sub(ry.origin, sph.position), ry.direction))
QuadC(sph, ry) ==
  LET origin == Sub(ry.origin, sph.position)
  IN  Dot(origin, origin) - Mul(sph.radius, sph.radius)
Discriminant(sph, ry) ==
  LET a == QuadA(ry)
      b == QuadB(sph, ry)
      c == QuadC(sph, ry)
  IN  Mul(b, b) - Mul(Mul(F(4), a), c)
\* faulty variant: a tangent ray is skipped as well
NoIntersection_OrZero(d) == d <= 0
\* `if discriminant < 0.0 { continue; }`
NoIntersection(d) == d < 0
\* (-b - discriminant.sqrt()) / (2.0 * a)
ClosestT(sph, ry) ==
  Div(-QuadB(sph, ry) - Sqrt(Discriminant(sph, ry)), Mul(F(2), QuadA(ry)))
\* faulty variant: a distance behind the origin is rejected
Closer_Forward(t, hd) == t >= 0 /\ t < hd
\* faulty variant: a later sphere at the same distance replaces the earlier one
Closer_OrEqual(t, hd) == t <= hd
\* `if closest_t < hit_distance`
Closer(t, hd) == t < hd

\* The state of the scan before the first sphere: no sphere, f32::MAX.
\* closest_sphere is an index into scene.spheres, 0 standing for None.
ScanStart == [closest_sphere |-> 0, hit_distance |-> F32_MAX]
\* One iteration of `for sphere in &scene.spheres`, on sphere number k.
LoopBody(acc, k, scn, ry) ==
  IF NoIntersection(Discriminant(scn[k], ry)) THEN acc
  ELSE The({ IF Closer(t, acc.hit_distance)
             THEN [closest_sphere |-> k, hit_distance |-> t]
             ELSE acc : t \in {ClosestT(scn[k], ry)} })
RECURSIVE Scan(_, _, _, _)
\* The iterations on spheres k .. Len(scn).
Scan(acc, k, scn, ry) ==
  IF k > Len(scn) THEN acc ELSE Scan(LoopBody(acc, k, scn, ry), k + 1, scn, ry)

HitPoint(sph, ry, t) == Add(Sub(ry.origin, sph.position), Scale(ry.direction, t))
\* faulty variant: the .max(0.0) is lost
Intensity_NoMax(nrm) == Dot(nrm, Neg(light_direction))
\* normal.dot(-light_direction).max(0.0)
Intensity(nrm) == FMax(Dot(nrm, Neg(light_direction)), 0)
\* faulty variant: the intensity is also written to the alpha channel
ShadeColor_AlphaLit(sph, ints) ==
  Vec4(Mul(sph.albedo.x, ints), Mul(sph.albedo.y, ints), Mul(sph.albedo.z, ints), ints)
\* Vec4::new(sphere_color.x, sphere_color.y, sphere_color.z, 1.0)
ShadeColor(sph, ints) ==
  The({ Vec4(Mul(sph.albedo.x, i), Mul(sph.albedo.y, i), Mul(sph.albedo.z, i), F(1)) :
          i \in {ints} })

\* cast_ray as a function of its arguments
cast_ray(scn, ry) ==
  IF Len(scn) = 0 THEN clear_color
  ELSE LET acc == Scan(ScanStart, 1, scn, ry)
       IN  IF acc.closest_sphere = 0 THEN clear_color
           ELSE LET sph == scn[acc.closest_sphere]
                    nrm == Normalize(HitPoint(sph, ry, acc.hit_distance))
                IN  ShadeColor(sph, Intensity(nrm))

\* ------------------------------------------------------ render_to_texture
RayOrigin == Vec3(0, 0, F(2))
\* faulty variant: the shift to [-1, 1) is lost
PixelCoord_Unshifted(p, n) == Mul(Div(F(p), F(n)), F(2))
\* (x as f32 / IMG_WIDTH as f32) * 2.0 - 1.0
PixelCoord(p, n) == Mul(Div(F(p), F(n)), F(2)) - F(1)
\* faulty variant: the rays lie in the image plane
PixelDirection_Flat(px, py) ==
  Vec3(PixelCoord(px, IMG_WIDTH), PixelCoord(py, IMG_HEIGHT), 0)
\* faulty variant: the two coordinates are exchanged
PixelDirection_Swapped(px, py) ==
  Vec3(PixelCoord(py, IMG_HEIGHT), PixelCoord(px, IMG_WIDTH), F(-1))
PixelDirection(px, py) ==
  Vec3(PixelCoord(px, IMG_WIDTH), PixelCoord(py, IMG_HEIGHT), F(-1))

\* ------------------------------------------------------------------ state
VARIABLES
  layer,            \* Application.layer: "None" or "Some"
  events_begun,     \* the event loop has delivered NewEvents(Init)
  control_flow,     \* "Wait" or "Exit"
  redraw_requested, \* window().request_redraw() is pending
  camera,           \* RayTracingCPU.camera
  scene,            \* RayTracingCPU.scene.spheres
  img_texture,      \* RayTracingCPU.img_texture: pixel -> RGBA8
  texture,          \* the data last uploaded to RayTracingCPU.texture
  entry,            \* the outermost function the behaviour runs
  pc,               \* the position of the one thread of control
  x, y,             \* loop variables of render_to_texture
  ray,              \* `ray` of render_to_texture, the argument of cast_ray
  sphere_idx,       \* the sphere the loop of cast_ray is at
  closest_sphere,   \* cast_ray: index of the sphere, 0 for None
  hit_distance,     \* cast_ray
  discriminant,     \* cast_ray: of the sphere last visited
  closest_t,        \* cast_ray: of the sphere last visited
  skipped,          \* cast_ray: the last sphere visited took `continue`
  normal,           \* cast_ray
  intensity,        \* cast_ray
  color,            \* the value cast_ray returned, the argument of convert_rgba
  rgba,             \* the value convert_rgba returned
  surface,          \* the texture data the last draw presented
  writes,           \* pixel -> number of put_pixel calls of the current pass
  uploads,          \* number of texture.update_data calls of the current pass
  starts,           \* number of L::start calls
  handled           \* what `run` did with the latest event, in order

appVars ==
  <<layer, events_begun, control_flow, redraw_requested, camera, surface,
    starts, handled>>
castVars ==
  <<sphere_idx, closest_sphere, hit_distance, discriminant, closest_t, skipped,
    normal, intensity, color>>
vars ==
  <<layer, events_begun, control_flow, redraw_requested, camera, scene,
    img_texture, texture, entry, pc, x, y, ray, sphere_idx, closest_sphere,
    hit_distance, discriminant, closest_t, skipped, normal, intensity, color,
    rgba, surface, writes, uploads, starts, handled>>

NoRay == [origin |-> Vec3ZERO, direction |-> Vec3ZERO]
NoWrites == [p \in Pixels |-> 0]
\* what `color` holds before cast_ray has returned anything
NoColor == Vec4(0, 0, 0, 0)

\* The locals of cast_ray and of render_to_texture before either has run.
LocalsInit ==
  /\ x = 0 /\ y = 0
  /\ sphere_idx = 0 /\ closest_sphere = 0 /\ hit_distance = F32_MAX
  /\ discriminant = 0 /\ closest_t = 0 /\ skipped = FALSE
  /\ normal = Vec3ZERO /\ intensity = 0
  /\ rgba = <<0, 0, 0, 0>>
  /\ writes = NoWrites /\ uploads = 0

\* Application::new: no layer yet, nothing of RayTracingCPU exists.
Init ==
  /\ layer = "None" /\ events_begun = FALSE /\ control_flow = "Wait"
  /\ redraw_requested = FALSE
  /\ camera = <<>> /\ scene = <<>> /\ img_texture = <<>> /\ texture = <<>>
  /\ surface = <<>>
  /\ starts = 0 /\ handled = <<>>
  /\ entry = "run" /\ pc = "idle"
  /\ ray = NoRay /\ color = NoColor
  /\ LocalsInit

\* ------------------------------------------------------------- cast_ray
\* where cast_ray returns to
CastRayReturn == IF entry = "cast_ray" THEN "done" ELSE "put_pixel"

\* lines 345-353: the early return on an empty scene, else the scan starts
CastRayEnter ==
  /\ pc = "cast_ray"
  /\ closest_sphere' = 0 /\ hit_distance' = F32_MAX
  /\ discriminant' = 0 /\ closest_t' = 0 /\ skipped' = FALSE
  /\ normal' = Vec3ZERO /\ intensity' = 0
  /\ IF Len(scene) = 0
     THEN color' = clear_color /\ sphere_idx' = 0 /\ pc' = CastRayReturn
     ELSE color' = color /\ sphere_idx' = 1 /\ pc' = "for_sphere"
  /\ UNCHANGED <<appVars, scene, img_texture, texture, entry, x, y, ray, rgba, writes, uploads>>

\* lines 355-373: one iteration of the loop over the spheres
CastRayLoop ==
  /\ pc = "for_sphere" /\ sphere_idx <= Len(scene)
  /\ LET sph == scene[sphere_idx]
         acc == LoopBody([closest_sphere |-> closest_sphere,
                          hit_distance |-> hit_distance], sphere_idx, scene, ray)
     IN  /\ discriminant' = Discriminant(sph, ray)
         /\ skipped' = NoIntersection(Discriminant(sph, ray))
         /\ closest_t' = IF NoIntersection(Discriminant(sph, ray))
                         THEN closest_t ELSE ClosestT(sph, ray)
         /\ closest_sphere' = acc.closest_sphere
         /\ hit_distance' = acc.hit_distance
  /\ sphere_idx' = sphere_idx + 1
  /\ UNCHANGED <<appVars, scene, img_texture, texture, entry, pc, x, y, ray,
                 normal, intensity, color, rgba, writes, uploads>>

\* lines 375-388: the miss return, else the shading of the closest sphere
CastRayShade ==
  /\ pc = "for_sphere" /\ sphere_idx > Len(scene)
  /\ IF closest_sphere = 0
     THEN color' = clear_color /\ UNCHANGED <<normal, intensity>>
     ELSE \E nrm \in {Normalize(HitPoint(scene[closest_sphere], ray, hit_distance))} :
            /\ normal' = nrm
            /\ intensity' = Intensity(nrm)
            /\ color' = ShadeColor(scene[closest_sphere], Intensity(nrm))
  /\ pc' = CastRayReturn
  /\ UNCHANGED <<appVars, scene, img_texture, texture, entry, x, y, ray,
                 sphere_idx, closest_sphere, hit_distance, discriminant,
                 closest_t, skipped, rgba, writes, uploads>>

\* ------------------------------------------------------ render_to_texture
\* lines 311-316: the ray is built and both loops start
RenderBegin ==
  /\ pc = "render_to_texture"
  /\ ray' = [origin |-> RayOrigin, direction |-> Vec3ZERO]
  /\ x' = 0 /\ y' = 0
  /\ writes' = NoWrites /\ uploads' = 0
  /\ pc' = "pixel"
  /\ UNCHANGED <<appVars, scene, img_texture, texture, entry, castVars, rgba>>

\* lines 317-321: the direction of the pixel's ray, and the call of cast_ray
PixelRay ==
  /\ pc = "pixel"
  /\ ray' = [ray EXCEPT !.direction = PixelDirection(x, y)]
  /\ pc' = "cast_ray"
  /\ UNCHANGED <<appVars, scene, img_texture, texture, entry, x, y, castVars,
                 rgba, writes, uploads>>

\* faulty variant: the image is uploaded after every pixel
PutPixel_UploadEach ==
  /\ pc = "put_pixel"
  /\ rgba' = convert_rgba(color)
  /\ img_texture' = [img_texture EXCEPT ![<<x, y>>] = convert_rgba(color)]
  /\ writes' = [writes EXCEPT ![<<x, y>>] = @ + 1]
  /\ texture' = img_texture'
  /\ uploads' = uploads + 1
  /\ IF x + 1 \in XRange
     THEN x' = x + 1 /\ y' = y /\ pc' = "pixel"
     ELSE IF y + 1 \in YRange
          THEN x' = 0 /\ y' = y + 1 /\ pc' = "pixel"
          ELSE x' = x /\ y' = y /\ pc' = "update_data"
  /\ UNCHANGED <<appVars, scene, entry, ray, castVars>>

\* line 322, and the step of both loops
PutPixel ==
  /\ pc = "put_pixel"
  /\ rgba' = convert_rgba(color)
  /\ img_texture' = [img_texture EXCEPT ![<<x, y>>] = convert_rgba(color)]
  /\ writes' = [writes EXCEPT ![<<x, y>>] = @ + 1]
  /\ IF x + 1 \in XRange
     THEN x' = x + 1 /\ y' = y /\ pc' = "pixel"
     ELSE IF y + 1 \in YRange
          THEN x' = 0 /\ y' = y + 1 /\ pc' = "pixel"
          ELSE x' = x /\ y' = y /\ pc' = "update_data"
  /\ UNCHANGED <<appVars, scene, texture, entry, ray, castVars, uploads>>

\* line 326: texture.update_data(queue, &img, ..)
UpdateData ==
  /\ pc = "update_data"
  /\ texture' = img_texture
  /\ uploads' = uploads + 1
  /\ pc' = IF entry = "run" THEN "render" ELSE "done"
  /\ UNCHANGED <<appVars, scene, img_texture, entry, x, y, ray, castVars, rgba,
                 writes>>

\* ------------------------------------------------------ Application::run
\* CameraController::process_events with elapsed_time = 1.0
process_events(cam, state, keycode) ==
  IF state = "Pressed" /\ keycode = "W"
  THEN [cam EXCEPT !.view.position.z = @ + Mul(Speed, F(1))]
  ELSE IF state = "Pressed" /\ keycode = "S"
       THEN [cam EXCEPT !.view.position.z = @ - Mul(Speed, F(1))]
       ELSE cam

\* RayTracingCPU::resize
resize(cam, w, h) == [cam EXCEPT !.projection.aspect_ratio = FDivU32(w, h)]

\* faulty variant: an event is handled while a handler is still running
Delivering_Reentrant == control_flow = "Wait" /\ events_begun
\* The event loop hands over an event: it is running, NewEvents(Init) has
\* been delivered, and the handler of the previous event has returned.
Delivering == pc = "idle" /\ control_flow = "Wait" /\ events_begun

\* the camera stays within MaxMoves key presses of where it started
WithinMoves(cam) ==
  Abs(cam.view.position.z - CameraViewDefault.position.z) <= MaxMoves * Speed

\* lines 60-62: the event goes to layer.process_event if there is a layer
Forwarded == IF layer = "Some" THEN <<"process_event">> ELSE <<>>

\* faulty variant: what L::start returns is not stored
NewEventsInit_NoLayer ==
  /\ pc = "idle" /\ control_flow = "Wait" /\ ~events_begun
  /\ events_begun' = TRUE
  /\ handled' = Forwarded
  /\ UNCHANGED <<layer, starts, camera, scene, img_texture, texture,
                 control_flow, redraw_requested, surface, entry, pc, x, y,
                 ray, castVars, rgba, writes, uploads>>

\* Event::NewEvents(StartCause::Init), the first event: L::start
NewEventsInit ==
  /\ pc = "idle" /\ control_flow = "Wait" /\ ~events_begun
  /\ events_begun' = TRUE
  /\ layer' = "Some"
  /\ starts' = starts + 1
  /\ handled' = Forwarded \o <<"start">>
  /\ camera' = CameraDefault
  /\ scene' = StartScene
  /\ img_texture' = create_target_texture
  /\ texture' = create_target_texture
  /\ UNCHANGED <<control_flow, redraw_requested, surface, entry, pc, x, y,
                 ray, castVars, rgba, writes, uploads>>

\* WindowEvent::KeyboardInput: only layer.process_event acts on it
KeyboardInput ==
  /\ Delivering
  /\ \E state \in {"Pressed", "Released"}, keycode \in {"W", "S", "Escape", "None"} :
       /\ camera' = IF layer = "Some"
                    THEN process_events(camera, state, keycode) ELSE camera
       /\ WithinMoves(camera')
  /\ handled' = Forwarded
  /\ UNCHANGED <<layer, events_begun, control_flow, redraw_requested, starts,
                 surface, scene, img_texture, texture, entry, pc, x, y, ray,
                 castVars, rgba, writes, uploads>>

\* what Resized and ScaleFactorChanged both do with the size they carry
OnNewSize(w, h) ==
  /\ IF layer = "Some"
     THEN /\ camera' = resize(camera, w, h) /\ pc' = pc
          /\ handled' = Forwarded \o <<"screen.resize", "resize">>
     ELSE /\ camera' = camera /\ pc' = "panic"
          /\ handled' = Forwarded \o <<"screen.resize">>
  /\ UNCHANGED <<layer, events_begun, control_flow, redraw_requested, surface,
                 starts,
                 scene, img_texture, texture, entry, x, y, ray, castVars, rgba,
                 writes, uploads>>

\* WindowEvent::Resized(physical_size)
Resized ==
  /\ Delivering
  /\ \E w \in 0 .. MaxDim, h \in 0 .. MaxDim : OnNewSize(w, h)

\* WindowEvent::ScaleFactorChanged { new_inner_size, .. }
ScaleFactorChanged ==
  /\ Delivering
  /\ \E w \in 0 .. MaxDim, h \in 0 .. MaxDim : OnNewSize(w, h)

\* WindowEvent::CloseRequested: exit code 0, shutdown returns Ok
CloseRequested ==
  /\ Delivering
  /\ control_flow' = "Exit"
  /\ pc' = IF layer = "Some" THEN pc ELSE "panic"
  /\ handled' = Forwarded \o <<"set_exit">> \o
                  (IF layer = "Some" THEN <<"shutdown">> ELSE <<>>)
  /\ UNCHANGED <<layer, events_begun, redraw_requested, camera, surface, starts,
                 scene, img_texture, texture, entry, x, y, ray, castVars, rgba,
                 writes, uploads>>

\* Event::MainEventsCleared: state.update() and request_redraw()
MainEventsCleared ==
  /\ Delivering
  /\ redraw_requested' = TRUE
  /\ handled' = Forwarded \o <<"state.update", "request_redraw">>
  /\ UNCHANGED <<layer, events_begun, control_flow, camera, surface, starts,
                 scene, img_texture, texture, entry, pc, x, y, ray, castVars,
                 rgba, writes, uploads>>

\* Event::RedrawRequested, which follows a request_redraw(): layer.update()
\* starts; it calls render_to_texture
RedrawRequested ==
  /\ Delivering /\ redraw_requested
  /\ redraw_requested' = FALSE
  /\ pc' = IF layer = "Some" THEN "render_to_texture" ELSE "panic"
  /\ handled' = Forwarded \o (IF layer = "Some" THEN <<"update">> ELSE <<>>)
  /\ UNCHANGED <<layer, events_begun, control_flow, camera, surface, starts,
                 scene, img_texture, texture, entry, x, y, ray, castVars, rgba,
                 writes, uploads>>

\* layer.render() after layer.update(), and the match on its result
Render ==
  /\ pc = "render"
  /\ pc' = "idle"
  /\ handled' = Append(handled, "render")
  /\ \E result \in {"Ok", "Lost", "OutOfMemory", "Timeout"} :
       /\ surface' = IF result = "Ok" THEN texture ELSE surface
       /\ control_flow' = IF result = "OutOfMemory" THEN "Exit" ELSE control_flow
  /\ UNCHANGED <<layer, events_begun, redraw_requested, camera, scene, starts,
                 img_texture, texture, entry, x, y, ray, castVars, rgba, writes,
                 uploads>>

\* the steps of one RedrawRequested handler after it has started
PassStep ==
  \/ RenderBegin \/ PixelRay \/ CastRayEnter \/ CastRayLoop \/ CastRayShade
  \/ PutPixel \/ UpdateData \/ Render

Next ==
  \/ NewEventsInit
  \/ KeyboardInput
  \/ Resized
  \/ ScaleFactorChanged
  \/ CloseRequested
  \/ MainEventsCleared
  \/ RedrawRequested
  \/ RenderBegin
  \/ PixelRay
  \/ CastRayEnter
  \/ CastRayLoop
  \/ CastRayShade
  \/ PutPixel
  \/ UpdateData
  \/ Render

Spec == Init /\ [][Next]_vars

\* The handler of an event is straight-line code on one thread: once it has
\* started it keeps running until it returns.
FairSpec == Spec /\ WF_vars(PassStep)

\* ------------------------------------- the functions on enumerated inputs
Magenta == StartScene[1]
Green == Sphere(Vec3ZERO, 500, Vec3(0, F(1), 0))
Tangent == Sphere(Vec3(500, 0, 0), 500, Vec3(F(1), F(1), F(1)))
Behind == Sphere(Vec3(0, 0, F(4)), 500, Vec3(0, 0, F(1)))
Reverse(sq) == [k \in 1 .. Len(sq) |-> sq[Len(sq) + 1 - k]]
Scenes ==
  { <<>>, StartScene, Reverse(StartScene), <<Magenta, Green>>, <<Green, Magenta>>,
    <<Tangent>>, <<Tangent, StartScene[2]>>, <<Magenta, Behind>>,
    <<Behind, Magenta>>, <<Green, Behind, Magenta>> }
Rays ==
  { [origin |-> o, direction |-> d] :
      o \in {Vec3(0, 0, F(2)), Vec3(0, 0, F(-2))},
      d \in {Vec3(0, 0, F(-1)), Vec3(0, 0, F(1)), Vec3(250, 0, F(-1)),
             Vec3(0, 0, F(-2)), Vec3(-250, -250, F(-1))} }
Channels == {0, 3, 4, 500, 999, F(1)}
Colors == { Vec4(r, g, b, a) : r \in Channels, g \in Channels, b \in Channels,
                               a \in Channels }

\* one call of cast_ray, of render_to_texture or of convert_rgba
InitPure ==
  /\ layer = "None" /\ events_begun = FALSE /\ control_flow = "Wait"
  /\ redraw_requested = FALSE
  /\ camera = <<>> /\ texture = <<>> /\ surface = <<>>
  /\ starts = 0 /\ handled = <<>>
  /\ LocalsInit
  /\ \/ /\ entry = "cast_ray" /\ pc = "cast_ray"
        /\ scene \in Scenes /\ ray \in Rays
        /\ color = NoColor /\ img_texture = <<>>
     \/ /\ entry = "render_to_texture" /\ pc = "render_to_texture"
        /\ scene \in Scenes /\ ray = NoRay
        /\ color = NoColor /\ img_texture = create_target_texture
     \/ /\ entry = "convert_rgba" /\ pc = "convert_rgba"
        /\ scene = <<>> /\ ray = NoRay
        /\ color \in Colors /\ img_texture = <<>>

\* convert_rgba called on its own
ConvertRgba ==
  /\ pc = "convert_rgba"
  /\ rgba' = convert_rgba(color)
  /\ pc' = "done"
  /\ UNCHANGED <<appVars, scene, img_texture, texture, entry, x, y, ray,
                 castVars, writes, uploads>>

NextPure ==
  \/ RenderBegin
  \/ PixelRay
  \/ CastRayEnter
  \/ CastRayLoop
  \/ CastRayShade
  \/ PutPixel
  \/ UpdateData
  \/ ConvertRgba

SpecPure == InitPure /\ [][NextPure]_vars

\* ----------------------------------------------------------------- claims
\* cast_ray has returned, and nothing has used its result yet
CastReturned == pc = "put_pixel" \/ (pc = "done" /\ entry = "cast_ray")

\* C1: in every render pass every ray that is cast starts at the camera's
\* current eye position, camera.view.position.
C1_RayOriginIsEye ==
  (layer = "Some" /\ pc \in {"cast_ray", "for_sphere", "put_pixel"})
    => ray.origin = camera.view.position

\* the spheres the ray meets: those of non-negative discriminant
Candidates(scn, ry) == {k \in 1 .. Len(scn) : Discriminant(scn[k], ry) >= 0}
\* the candidates of smallest near root
Nearest(scn, ry) ==
  {k \in Candidates(scn, ry) :
     \A j \in Candidates(scn, ry) : ClosestT(scn[k], ry) <= ClosestT(scn[j], ry)}
\* the first of them in the scene's order
FirstNearest(scn, ry) ==
  CHOOSE k \in Nearest(scn, ry) : \A j \in Nearest(scn, ry) : k <= j
\* the colour of sphere k as the ray sees it
Shaded(scn, ry, k) ==
  ShadeColor(scn[k],
    Intensity(Normalize(HitPoint(scn[k], ry, ClosestT(scn[k], ry)))))

\* C2: cast_ray shades the sphere of smallest near root among the spheres of
\* non-negative discriminant, the earliest in the list among equals; the
\* result on the reversed list differs only if the smallest root is tied.
C2_NearestFirstWins ==
  (CastReturned /\ Len(scene) > 0) =>
    /\ IF Candidates(scene, ray) = {}
       THEN closest_sphere = 0
       ELSE /\ closest_sphere = FirstNearest(scene, ray)
            /\ hit_distance = ClosestT(scene[closest_sphere], ray)
            /\ color = Shaded(scene, ray, FirstNearest(scene, ray))
    /\ (cast_ray(Reverse(scene), ray) # color
          => Cardinality(Nearest(scene, ray)) > 1)

\* C2 witness: two spheres at the same distance, the first one shaded, and
\* the reversed scene giving another colour.
C2_Witness ==
  /\ CastReturned /\ Len(scene) = 2
  /\ Nearest(scene, ray) = {1, 2}
  /\ closest_sphere = 1
  /\ cast_ray(Reverse(scene), ray) # color

\* C3: on an empty scene cast_ray reports no hit and returns (0,0,0,1), and
\* a whole pass leaves every pixel (0,0,0,255).
C3_EmptySceneIsBackground ==
  (Len(scene) = 0 /\ entry \in {"cast_ray", "render_to_texture"}) =>
    /\ CastReturned => (closest_sphere = 0 /\ color = Vec4(0, 0, 0, F(1)))
    /\ (entry = "render_to_texture" /\ pc \in {"update_data", "done"})
         => \A p \in Pixels : img_texture[p] = <<0, 0, 0, 255>>

\* C3 witness: a pass over the empty scene has ended.
C3_Witness ==
  /\ entry = "render_to_texture" /\ Len(scene) = 0 /\ pc = "done"
  /\ \A p \in Pixels : writes[p] = 1

\* C4: on a hit the intensity is max(0, dot(normal, -light_direction)),
\* never negative, and 0 with black colour channels when the dot is <= 0.
C4_IntensityNeverNegative ==
  (CastReturned /\ closest_sphere # 0) =>
    LET d == Dot(normal, Neg(light_direction))
    IN  /\ intensity >= 0
        /\ intensity = (IF d > 0 THEN d ELSE 0)
        /\ d <= 0 => (intensity = 0 /\ color.x = 0 /\ color.y = 0 /\ color.z = 0)

\* C4 witness: a hit on a lit-from-behind point of a coloured sphere.
C4_Witness ==
  /\ CastReturned /\ closest_sphere # 0
  /\ Dot(normal, Neg(light_direction)) < 0
  /\ scene[closest_sphere].albedo.x > 0

\* C5: cast_ray returns alpha 1.0, and every pixel of the image has alpha
\* 255 from the initial fill on, during and after every pass.
C5_AlphaOpaque ==
  /\ layer = "Some" => \A p \in Pixels : img_texture[p][4] = 255
  /\ pc = "put_pixel" => color.w = F(1)

\* C5 witness: a pass has ended that wrote pixels of a hit and of a miss.
C5_Witness ==
  /\ layer = "Some" /\ pc = "update_data"
  /\ \E p \in Pixels : img_texture[p] = <<0, 0, 0, 255>>
  /\ \E p \in Pixels : img_texture[p][1] > 0

\* floor(c * 255) of a component c of [0, 1]
Floor255(c) == (c * 255) \div FP

\* C6: convert_rgba maps each component c of [0,1] to floor(c * 255), each
\* channel on its own; (1,1,1,1) gives (255,255,255,255) and (0,0,0,1)
\* gives (0,0,0,255).
C6_ConvertTruncates ==
  (entry = "convert_rgba" /\ pc = "done") =>
    /\ rgba = <<Floor255(color.x), Floor255(color.y), Floor255(color.z),
                Floor255(color.w)>>
    /\ color = Vec4(F(1), F(1), F(1), F(1)) => rgba = <<255, 255, 255, 255>>
    /\ color = Vec4(0, 0, 0, F(1)) => rgba = <<0, 0, 0, 255>>

\* C6 witness: 0.999 is truncated to 254 next to channels that are not.
C6_Witness ==
  /\ entry = "convert_rgba" /\ pc = "done"
  /\ color = Vec4(999, 4, F(1), 500)
  /\ rgba = <<254, 1, 255, 127>>

\* the value the pass gives pixel p: a function of p and the scene
PixelValue(scn, p) ==
  convert_rgba(cast_ray(scn, [origin |-> RayOrigin,
                               direction |-> PixelDirection(p[1], p[2])]))

\* C7: a render pass ends, having written every pixel exactly once; at its
\* end every pixel holds the value (x, y, scene) determine, none the fill.
C7_PassWritesEveryPixelOnce ==
  /\ [](\A p \in Pixels : writes[p] <= 1)
  /\ [](pc = "update_data" =>
          \A p \in Pixels : /\ writes[p] = 1
                            /\ img_texture[p] = PixelValue(scene, p)
                            /\ img_texture[p] # InitialFill)
  /\ (pc = "render_to_texture" ~> pc = "update_data")

\* C7 witness: a pass ends after an earlier frame was drawn and the camera
\* was moved.
C7_Witness ==
  /\ layer = "Some" /\ pc = "update_data"
  /\ surface # <<>>
  /\ camera.view.position # CameraViewDefault.position
  /\ \A p \in Pixels : writes[p] = 1

\* C8: with the startup scene and the eye at (0,0,2) the centre pixel's ray
\* has direction (0,0,-1), hits the first sphere at distance 1.5, and its
\* colour has equal red and blue and no green.
C8_CentrePixel ==
  (layer = "Some" /\ pc = "put_pixel"
     /\ x = IMG_WIDTH \div 2 /\ y = IMG_HEIGHT \div 2) =>
    /\ ray.origin = Vec3(0, 0, F(2))
    /\ ray.direction = Vec3(0, 0, F(-1))
    /\ closest_sphere = 1
    /\ scene[1] = Sphere(Vec3ZERO, 500, Vec3(F(1), 0, F(1)))
    /\ hit_distance = 1500
    /\ color.x = color.z /\ color.y = 0

\* C8 witness: the centre pixel has been cast and is lit.
C8_Witness ==
  /\ layer = "Some" /\ pc = "put_pixel"
  /\ x = IMG_WIDTH \div 2 /\ y = IMG_HEIGHT \div 2
  /\ closest_sphere = 1 /\ color.x > 0

\* f > 0 for an f32 that may be infinite or NaN
FPositive(f) == f.kind = "inf" \/ (f.kind = "num" /\ f.val > 0)

\* C9: 0 < near < far, 0 < fov < pi and aspect_ratio > 0 in every state,
\* whatever Resized, ScaleFactorChanged and keyboard events arrive.
C9_CameraInvariant ==
  layer = "Some" =>
    /\ 0 < camera.projection.near
    /\ camera.projection.near < camera.projection.far
    /\ 0 < camera.projection.fov /\ camera.projection.fov < PI
    /\ FPositive(camera.projection.aspect_ratio)

\* C10: a sphere is skipped exactly when its discriminant is negative; at
\* discriminant 0 it is a candidate at t = -b / (2a), and above 0 at the
\* near root, which is below the far root.
C10_SkippedIffNegative ==
  (pc = "for_sphere" /\ sphere_idx > 1) =>
    LET sph == scene[sphere_idx - 1]
        d == Discriminant(sph, ray)
        twoA == Mul(F(2), QuadA(ray))
        b == QuadB(sph, ray)
    IN  /\ discriminant = d
        /\ skipped <=> d < 0
        /\ ~skipped => hit_distance <= closest_t
        /\ d = 0 => closest_t = Div(-b, twoA)
        /\ d > 0 => /\ closest_t = Div(-b - Sqrt(d), twoA)
                    /\ closest_t < Div(-b + Sqrt(d), twoA)

\* C10 witness: a tangent sphere has been visited and is the closest so far.
C10_Witness ==
  /\ pc = "for_sphere" /\ sphere_idx > 1
  /\ discriminant = 0 /\ ~skipped
  /\ closest_sphere = sphere_idx - 1
  /\ hit_distance = Div(-QuadB(scene[sphere_idx - 1], ray), Mul(F(2), QuadA(ray)))

\* C11: a negative near root is not rejected: a sphere behind the origin
\* (discriminant >= 0, t < 0) is a candidate, and the smallest t being
\* taken, it is shaded in preference to every sphere in front (t > 0).
C11_NegativeRootSelected ==
  (CastReturned /\ Len(scene) > 0) =>
    \A k \in Candidates(scene, ray) :
      ClosestT(scene[k], ray) < 0 =>
        /\ closest_sphere # 0
        /\ hit_distance < 0
        /\ hit_distance <= ClosestT(scene[k], ray)
        /\ ClosestT(scene[closest_sphere], ray) = hit_distance
        /\ color = Shaded(scene, ray, closest_sphere)

\* the far root of sphere number k
FarT(scn, ry, k) ==
  Div(-QuadB(scn[k], ry) + Sqrt(Discriminant(scn[k], ry)), Mul(F(2), QuadA(ry)))

\* C11 witness: a sphere wholly behind the origin is shaded although
\* another one lies in front of it.
C11_Witness ==
  /\ CastReturned /\ closest_sphere # 0
  /\ hit_distance < 0
  /\ FarT(scene, ray, closest_sphere) < 0
  /\ \E j \in Candidates(scene, ray) : ClosestT(scene[j], ray) > 0

\* 2p/n - 1
Coord(p, n) == Div(F(2 * p), F(n)) - F(1)

\* C12: for every pixel (x, y) of the image the renderer computes
\* coord = (2x/width - 1, 2y/height - 1), both components lie in [-1, 1],
\* and the direction of the ray is exactly (coord.x, coord.y, -1), whatever
\* the field of view, the aspect ratio and the rotation of the camera are.
C12_DirectionFromPixel ==
  (layer = "Some" /\ pc \in {"cast_ray", "for_sphere", "put_pixel"}) =>
    /\ <<x, y>> \in Pixels
    /\ -F(1) <= Coord(x, IMG_WIDTH) /\ Coord(x, IMG_WIDTH) <= F(1)
    /\ -F(1) <= Coord(y, IMG_HEIGHT) /\ Coord(y, IMG_HEIGHT) <= F(1)
    /\ ray.direction = Vec3(Coord(x, IMG_WIDTH), Coord(y, IMG_HEIGHT), F(-1))

\* C12 witness: the ray of a pixel off both axes is cast by a camera whose
\* aspect ratio is no longer the one it started with.
C12_Witness ==
  /\ layer = "Some" /\ pc = "cast_ray"
  /\ x # y /\ x > 0 /\ y > 0
  /\ camera.projection.aspect_ratio # CameraDefault.projection.aspect_ratio

\* C15: every ray the frame renderer hands to cast_ray has a direction of
\* z = -1, so a = dot(direction, direction) >= 1 > 0 at every pixel of
\* every pass, and the divisor 2a of the quadratic formula is never zero.
C15_DivisorNeverZero ==
  (entry = "run" /\ pc \in {"cast_ray", "for_sphere"}) =>
    /\ ray.direction.z = F(-1)
    /\ QuadA(ray) >= F(1)
    /\ Mul(F(2), QuadA(ray)) > 0

\* C15 witness: in a pass, off the axis of the image, the quadratic formula
\* has just been evaluated for a sphere the ray meets.
C15_Witness ==
  /\ entry = "run" /\ pc = "for_sphere"
  /\ sphere_idx > 1 /\ ~skipped
  /\ closest_t = ClosestT(scene[sphere_idx - 1], ray)
  /\ QuadA(ray) > F(1)

\* every pixel has been written once in the current pass
PassComplete == \A p \in Pixels : writes[p] = 1

\* C13: in each frame the pixel buffer goes to texture.update_data exactly
\* once, and only after the last pixel of the pass was written; no upload
\* and no draw sees a buffer of which only a part belongs to the current
\* pass; on RedrawRequested update (ray trace and upload) has completed
\* before render starts.
C13_UploadOncePerFrame ==
  /\ [](uploads <= 1)
  /\ [](pc \in {"pixel", "cast_ray", "for_sphere", "put_pixel", "update_data"}
          => uploads = 0)
  /\ [](pc = "render" => uploads = 1 /\ PassComplete /\ texture = img_texture)
  /\ [][(layer = "Some" /\ texture' # texture) =>
          /\ pc = "update_data" /\ uploads = 0 /\ uploads' = 1
          /\ PassComplete
          /\ texture' = img_texture]_vars
  /\ [][surface' # surface =>
          /\ pc = "render" /\ uploads = 1
          /\ PassComplete
          /\ surface' = texture /\ texture = img_texture]_vars

\* C13 witness: the upload of a second frame has been made, its draw is
\* about to start, and the first frame is still what the surface shows.
C13_Witness ==
  /\ layer = "Some" /\ pc = "render"
  /\ uploads = 1 /\ PassComplete
  /\ surface # <<>> /\ texture = img_texture

\* a render pass is in progress
InPass ==
  pc \in {"render_to_texture", "pixel", "cast_ray", "for_sphere", "put_pixel",
          "update_data"}

\* C14: Scene and Camera are never mutated while a render pass is in
\* progress: every camera mutation (key press, resize) happens between
\* passes, a pass runs to completion before the next event is handled, and
\* the pass itself leaves the Scene and the Camera as they were.
C14_NoMutationDuringPass ==
  [][layer = "Some" =>
       /\ InPass => (camera' = camera /\ scene' = scene)
       /\ (camera' # camera \/ scene' # scene) => (pc = "idle" /\ pc' = "idle")
       /\ InPass => (handled' = handled /\ layer' = layer)
       /\ (InPass /\ ~InPass') => pc' = "render"]_vars

\* C14 witness: a pass is under way, with a camera that was moved and
\* resized since the frame drawn before it.
C14_Witness ==
  /\ layer = "Some" /\ pc = "put_pixel" /\ x > 0 /\ y > 0
  /\ surface # <<>>
  /\ camera # CameraDefault
  /\ handled = <<"process_event", "update">>

\* the calls `run` makes on the layer it unwraps
Unwrapping == {"shutdown", "resize", "update", "render"}

\* C16: the layer is created exactly once, when NewEvents(Init) is handled;
\* no event is forwarded to it before that; every event handled afterwards
\* goes to layer.process_event before the application handles it itself;
\* and whenever Resized, ScaleFactorChanged, RedrawRequested or
\* CloseRequested is handled the layer exists: its unwrap never fails.
C16_LayerCreatedOnceAtInit ==
  /\ starts = (IF events_begun THEN 1 ELSE 0)
  /\ (layer = "Some") <=> events_begun
  /\ ~events_begun => handled = <<>>
  /\ events_begun =>
       /\ handled # <<>>
       /\ handled = <<"start">> \/ handled[1] = "process_event"
       /\ \A i \in 2 .. Len(handled) : handled[i] \notin {"process_event", "start"}
  /\ (\E i \in 1 .. Len(handled) : handled[i] \in Unwrapping) => layer = "Some"
  /\ pc # "panic"

\* C16 witness: after a frame was drawn a resize has been handled: forwarded
\* first, then applied to the screen and to the layer, which was unwrapped.
C16_Witness ==
  /\ starts = 1 /\ layer = "Some" /\ pc = "idle"
  /\ surface # <<>>
  /\ handled = <<"process_event", "screen.resize", "resize">>

====
